---- MODULE Spec2Model ----
(***************************************************************************)
(* Model of obsidian_import.py: the conversion of a vault of Markdown      *)
(* notes into IdeaFlow tokens.                                             *)
(*                                                                         *)
(* A Python str is modelled as a sequence of one-character strings, so     *)
(* that slicing, startswith, split and the regular expressions are         *)
(* computed character by character as the code computes them.  Offsets in  *)
(* the records of finditer are Python's (0-based, end exclusive).          *)
(*                                                                         *)
(* generate_token_id draws from uuid4; it is modelled as handing out the   *)
(* next identifier never handed out before (nextId), i.e. under the        *)
(* idealisation that two draws of an 8-hex-digit prefix never collide.     *)
(***************************************************************************)
EXTENDS Integers, Sequences, FiniteSets, TLC

VARIABLES
    files,      \* the vault as os.walk enumerates it: a sequence of [name, content]
    mapping,    \* title -> note id (obsidian_to_ideaflow_link_mapping's dict)
    notes,      \* ideaflow_notes: note id -> note record
    nextId,     \* the number of identifiers generate_token_id has handed out
    pc,         \* position of the program
    fi,         \* index of the file a pass over the vault is at
    text,       \* the argument of a call of parse_by_word, parse_line, convert_to_tokens
    ret         \* what that call returned

vars == <<files, mapping, notes, nextId, pc, fi, text, ret>>

\* ------------------------------------------------------------------ bounds

MaxPieces == 4
MaxFiles == 2
MaxNamePieces == 2

\* ------------------------------------------------------------ Python str

\* str.isspace for the characters of the model (Python also counts \v, the
\* separators \x1c-\x1f and the Unicode spaces, none of which the model draws).
Whitespace == {" ", "\t", "\n", "\r", "\f"}

Min(S) == CHOOSE m \in S : \A k \in S : m <= k

\* s[a:b] and s[a:], with Python's 0-based offsets (0 <= a)
Slice(s, a, b) == SubSeq(s, a + 1, b)
SliceFrom(s, a) == SubSeq(s, a + 1, Len(s))

startswith(s, p) == Len(p) <= Len(s) /\ SubSeq(s, 1, Len(p)) = p
endswith(s, p) == Len(p) <= Len(s) /\ SubSeq(s, Len(s) - Len(p) + 1, Len(s)) = p

\* p occurs in s at the 1-based position i
OccursAt(s, p, i) == i >= 1 /\ i + Len(p) - 1 <= Len(s) /\ SubSeq(s, i, i + Len(p) - 1) = p

RECURSIVE lstrip(_)
lstrip(s) ==
    IF s # <<>> /\ Head(s) \in Whitespace THEN lstrip(Tail(s)) ELSE s

RECURSIVE rstrip(_)
rstrip(s) ==
    IF s # <<>> /\ s[Len(s)] \in Whitespace THEN rstrip(SubSeq(s, 1, Len(s) - 1)) ELSE s

strip(s) == rstrip(lstrip(s))

\* str.split() with no argument: the maximal runs of non-whitespace characters
RECURSIVE SplitWs(_, _, _)
SplitWs(s, cur, acc) ==
    IF s = <<>> THEN (IF cur = <<>> THEN acc ELSE Append(acc, cur))
    ELSE IF Head(s) \in Whitespace
         THEN SplitWs(Tail(s), <<>>, IF cur = <<>> THEN acc ELSE Append(acc, cur))
         ELSE SplitWs(Tail(s), Append(cur, Head(s)), acc)

split(s) == SplitWs(s, <<>>, <<>>)

\* str.split(sep) for a one-character separator: always at least one part
RECURSIVE SplitOn(_, _, _, _)
SplitOn(s, sep, cur, acc) ==
    IF s = <<>> THEN Append(acc, cur)
    ELSE IF Head(s) = sep
         THEN SplitOn(Tail(s), sep, <<>>, Append(acc, cur))
         ELSE SplitOn(Tail(s), sep, Append(cur, Head(s)), acc)

split_newline(s) == SplitOn(s, "\n", <<>>, <<>>)

\* str.replace(old, ''): every non-overlapping occurrence of old, left to right
RECURSIVE remove_all(_, _)
remove_all(s, old) ==
    IF s = <<>> THEN <<>>
    ELSE IF startswith(s, old) THEN remove_all(SliceFrom(s, Len(old)), old)
    ELSE <<Head(s)>> \o remove_all(Tail(s), old)

\* ------------------------------------------------------- parse_by_word

\* The printable ASCII characters the URL pattern's character class leaves out:
\* [a-zA-Z] | [0-9] | [$-_@.&+] ($ to _ is the range 0x24-0x5F) | [!*\(\),]
\* cover every printable ASCII character but these and the backquote (which the
\* model never draws); %XX is covered by % itself.
NotUrlChars == Whitespace \cup {"\"", "#", "{", "|", "}", "~"}

HttpScheme == <<"h", "t", "t", "p", ":", "/", "/">>
HttpsScheme == <<"h", "t", "t", "p", "s", ":", "/", "/">>

\* re.match(r'http[s]?://(?:...)+', word): a prefix match, one class character at least
IsUrl(word) ==
    \/ startswith(word, HttpScheme)
       /\ Len(word) > Len(HttpScheme) /\ word[Len(HttpScheme) + 1] \notin NotUrlChars
    \/ startswith(word, HttpsScheme)
       /\ Len(word) > Len(HttpsScheme) /\ word[Len(HttpsScheme) + 1] \notin NotUrlChars

SpaceElement == [type |-> "text", marks |-> <<>>, content |-> <<" ">>]

WordElement(word) ==
    IF IsUrl(word) THEN [type |-> "link", content |-> word, slug |-> word]
    ELSE IF startswith(word, <<"#">>) THEN [type |-> "hashtag", content |-> word]
    ELSE [type |-> "text", marks |-> <<>>, content |-> word]

\* the loop of parse_by_word, had it tested i < len(words) in place of
\* i < len(words) - 1: a separator after the last word too
RECURSIVE WordLoop_TrailingSpace(_, _)
WordLoop_TrailingSpace(words, i) ==
    IF i >= Len(words) THEN <<>>
    ELSE <<WordElement(words[i + 1])>>
         \o (IF i < Len(words) THEN <<SpaceElement>> ELSE <<>>)
         \o WordLoop_TrailingSpace(words, i + 1)

\* the loop of parse_by_word from index i (0-based, as enumerate counts)
RECURSIVE WordLoop(_, _)
WordLoop(words, i) ==
    IF i >= Len(words) THEN <<>>
    ELSE <<WordElement(words[i + 1])>>
         \o (IF i < Len(words) - 1 THEN <<SpaceElement>> ELSE <<>>)
         \o WordLoop(words, i + 1)

parse_by_word(line) == WordLoop(split(line), 0)

\* ---------------------------------------------------------- parse_line

OpenBr == <<"[", "[">>
CloseBr == <<"]", "]">>

\* The 1-based positions j of a "]]" that closes a "[[" at the 1-based position s:
\* (.*?) matches any characters but a newline.
Closers(line, s) ==
    {j \in (s + 2)..(Len(line) - 1) :
        /\ OccursAt(line, CloseBr, j)
        /\ \A k \in (s + 2)..(j - 1) : line[k] # "\n"}

\* finditer, had the pattern been the greedy \[\[(.*)\]\]: closed by the last closer
RECURSIVE finditer_Greedy(_, _)
finditer_Greedy(line, pos) ==
    LET starts == {s \in (pos + 1)..Len(line) :
                      OccursAt(line, OpenBr, s) /\ Closers(line, s) # {}}
    IN  IF starts = {} THEN <<>>
        ELSE LET s == Min(starts)
                 j == CHOOSE c \in Closers(line, s) : \A k \in Closers(line, s) : k <= c
                 m == [group |-> SubSeq(line, s, j + 1), start |-> s - 1, end |-> j + 1]
             IN  <<m>> \o finditer_Greedy(line, m.end)

\* re.compile(r'\[\[(.*?)\]\]').finditer(line) from the 0-based offset pos:
\* the leftmost start that has a match, closed by the nearest closer (lazy).
RECURSIVE finditer(_, _)
finditer(line, pos) ==
    LET starts == {s \in (pos + 1)..Len(line) :
                      OccursAt(line, OpenBr, s) /\ Closers(line, s) # {}}
    IN  IF starts = {} THEN <<>>
        ELSE LET s == Min(starts)
                 j == Min(Closers(line, s))
                 m == [group |-> SubSeq(line, s, j + 1), start |-> s - 1, end |-> j + 1]
             IN  <<m>> \o finditer(line, m.end)

\* mapping.get(key, default)
dict_get(m, key, default) == IF key \in DOMAIN m THEN m[key] ELSE default

\* the loop over obsidian_links, had the brackets been left on the key looked up
RECURSIVE LinkLoop_RawKey(_, _, _, _, _, _)
LinkLoop_RawKey(line, m, links, last_pos, elements, n) ==
    IF links = <<>> THEN [elements |-> elements, last_pos |-> last_pos, next |-> n]
    ELSE LET l == Head(links)
             before == IF l.start > last_pos
                       THEN parse_by_word(Slice(line, last_pos, l.start))
                       ELSE <<>>
             linked_note_id == dict_get(m, l.group, n)
             ship == [type |-> "spaceship", linkedNoteId |-> linked_note_id,
                      tokenId |-> n + 1]
         IN  LinkLoop_RawKey(line, m, Tail(links), l.end,
                             elements \o before \o <<ship>>, n + 2)

\* the loop over obsidian_links; n is the number of identifiers handed out so far
RECURSIVE LinkLoop(_, _, _, _, _, _)
LinkLoop(line, m, links, last_pos, elements, n) ==
    IF links = <<>> THEN [elements |-> elements, last_pos |-> last_pos, next |-> n]
    ELSE LET l == Head(links)
             before == IF l.start > last_pos
                       THEN parse_by_word(Slice(line, last_pos, l.start))
                       ELSE <<>>
             linked_note == SubSeq(l.group, 3, Len(l.group) - 2)
             \* the default of get is evaluated whether or not the key is found
             linked_note_id == dict_get(m, linked_note, n)
             ship == [type |-> "spaceship", linkedNoteId |-> linked_note_id,
                      tokenId |-> n + 1]
         IN  LinkLoop(line, m, Tail(links), l.end,
                      elements \o before \o <<ship>>, n + 2)

Bullet == <<"*", " ">>
Unchecked == <<"-", " ", "[", " ", "]", " ">>
Checked == <<"-", " ", "[", "x", "]", " ">>

\* the bullet branch: a list holding one listItem, whose paragraph takes identifier n
ParseBullet(line, n) ==
    LET stripped_line == lstrip(line)
        leading_spaces == Len(line) - Len(stripped_line)
        depth == leading_spaces \div 4
        remaining_text == SliceFrom(line, 2)
        content == parse_by_word(remaining_text)
        item == [type |-> "listItem",
                 content |-> <<[type |-> "paragraph", tokenId |-> n, content |-> content]>>,
                 depth |-> depth]
    IN  [elements |-> [type |-> "list", content |-> <<item>>],
         content_type |-> "list", next |-> n + 1]

\* the checkbox branch, had isChecked tested the wrong prefix
ParseCheckbox_WrongPrefix(line, n) ==
    [elements |-> <<[type |-> "checkbox", isChecked |-> startswith(line, Unchecked)]>>
                  \o parse_by_word(SliceFrom(line, 6)),
     content_type |-> "paragraph", next |-> n]

\* the checkbox branch: the marker, then the words after the six characters of the prefix
ParseCheckbox(line, n) ==
    [elements |-> <<[type |-> "checkbox", isChecked |-> startswith(line, Checked)]>>
                  \o parse_by_word(SliceFrom(line, 6)),
     content_type |-> "paragraph", next |-> n]

\* the default branch: the links of the line and the plain text around them
ParseLinks(line, m, n) ==
    LET obsidian_links == finditer(line, 0)
        r == LinkLoop(line, m, obsidian_links, 0, <<>>, n)
        rest == IF r.last_pos < Len(line)
                THEN parse_by_word(SliceFrom(line, r.last_pos))
                ELSE <<>>
    IN  [elements |-> r.elements \o rest, content_type |-> "paragraph", next |-> r.next]

\* parse_line(line, mapping) with n identifiers handed out before the call:
\* [elements, content_type] as returned, and next, the identifiers handed out after it.
parse_line(line, m, n) ==
    IF startswith(line, Bullet) THEN ParseBullet(line, n)
    ELSE IF startswith(line, Unchecked) \/ startswith(line, Checked)
         THEN ParseCheckbox(line, n)
         ELSE ParseLinks(line, m, n)

\* --------------------------------------------------- convert_to_tokens

\* the loop over the paragraphs, had it passed over the blank ones
RECURSIVE TokenLoop_SkipBlank(_, _, _, _)
TokenLoop_SkipBlank(paragraphs, m, tokens, n) ==
    IF paragraphs = <<>> THEN [tokens |-> tokens, next |-> n]
    ELSE LET paragraph == Head(paragraphs)
         IN  IF strip(paragraph) # <<>>
             THEN LET token_id == n
                      r == parse_line(paragraph, m, n + 1)
                      token == IF r.content_type = "list"
                               THEN r.elements
                               ELSE [type |-> "paragraph", tokenId |-> token_id,
                                     content |-> r.elements]
                  IN  TokenLoop_SkipBlank(Tail(paragraphs), m, Append(tokens, token),
                                          r.next)
             ELSE TokenLoop_SkipBlank(Tail(paragraphs), m, tokens, n)

\* the loop over the paragraphs; n is the number of identifiers handed out so far
RECURSIVE TokenLoop(_, _, _, _)
TokenLoop(paragraphs, m, tokens, n) ==
    IF paragraphs = <<>> THEN [tokens |-> tokens, next |-> n]
    ELSE LET paragraph == Head(paragraphs)
         IN  IF strip(paragraph) # <<>>
             THEN LET token_id == n
                      r == parse_line(paragraph, m, n + 1)
                      token == IF r.content_type = "list"
                               THEN r.elements
                               ELSE [type |-> "paragraph", tokenId |-> token_id,
                                     content |-> r.elements]
                  IN  TokenLoop(Tail(paragraphs), m, Append(tokens, token), r.next)
             ELSE TokenLoop(Tail(paragraphs), m,
                            Append(tokens, [type |-> "paragraph", tokenId |-> n,
                                            content |-> <<>>]),
                            n + 1)

convert_to_tokens(content, m, n) == TokenLoop(split_newline(content), m, <<>>, n)

\* ------------------------------------------------------- the two passes

MdSuffix == <<".", "m", "d">>

\* filename.replace('.md', '').replace('#', '')
Title(filename) == remove_all(remove_all(filename, MdSuffix), <<"#">>)

\* the record of a note; created_at, inserted_at and updated_at, which are read
\* off the clock, are left out
NoteData(note_id, tokens) ==
    [id |-> note_id, deleted_at |-> "None", position |-> "aC", tokens |-> tokens,
     read_all |-> FALSE, position_in_pinned |-> "None", folder_id |-> "None",
     import_source |-> "Obsidian", import_batch |-> "None",
     import_foreign_id |-> "None"]

\* ------------------------------------------------------ inputs of the calls

RECURSIVE Flatten(_)
Flatten(ss) == IF ss = <<>> THEN <<>> ELSE Head(ss) \o Flatten(Tail(ss))

\* the strings made of at most n pieces of P
Strings(P, n) == {Flatten(ps) : ps \in UNION {[1..k -> P] : k \in 0..n}}

NoFiles == <<>>
NoNotes == <<>>
EmptyMapping == <<>>

TitleA == <<"a">>

WordPieces ==
    {<<"a">>, <<" ">>, <<"\t">>, <<"#">>, Bullet, Unchecked, Checked,
     <<" ", " ", " ", " ">>, HttpScheme}

LinePieces ==
    {<<"a">>, <<" ">>, OpenBr, CloseBr, <<"[">>, <<"#">>, Bullet, <<"\n">>}

\* the mappings a call is made with, and the identifiers handed out to build each
LineMappings ==
    {[mapping |-> EmptyMapping, nextId |-> 0],
     [mapping |-> (TitleA :> 0), nextId |-> 1],
     [mapping |-> (<<>> :> 0) @@ (TitleA :> 1), nextId |-> 2]}

NamePieces == {<<"a">>, <<"#">>, MdSuffix}

\* a file name is not empty
FileNames == Strings(NamePieces, MaxNamePieces) \ {<<>>}

FileContents == {<<>>, OpenBr \o TitleA \o CloseBr}

\* only the files that end in .md are ever opened: the others need no content
Files ==
    [name : {f \in FileNames : endswith(f, MdSuffix)}, content : FileContents]
    \cup [name : {f \in FileNames : ~endswith(f, MdSuffix)}, content : {<<>>}]

\* the vault of the end-to-end example: Note A.md, which links to Note B, and Note B.md
NoteA == <<"N", "o", "t", "e", " ", "A">>
NoteB == <<"N", "o", "t", "e", " ", "B">>
ExampleBody ==
    <<"H", "e", "l", "l", "o", " ", "[", "[", "N", "o", "t", "e", " ", "B", "]", "]", " ">>
    \o <<"#", "t", "a", "g", " ", "h", "t", "t", "p", ":", "/", "/", "x", ".", "c", "o", "m">>
ExampleUrl == HttpScheme \o <<"x", ".", "c", "o", "m">>
ExampleVault ==
    <<[name |-> NoteA \o MdSuffix, content |-> ExampleBody],
      [name |-> NoteB \o MdSuffix, content |-> <<>>]>>

Vaults == UNION {[1..k -> Files] : k \in 0..MaxFiles} \cup {ExampleVault}

\* ------------------------------------------------------------- actions

CallParseByWord ==
    /\ pc = "call"
    /\ ret' = parse_by_word(text)
    /\ pc' = "parse_by_word"
    /\ UNCHANGED <<files, mapping, notes, nextId, fi, text>>

\* the call of parse_line, had the lookup been mapping.setdefault: the titles
\* not found are entered in the caller's mapping
CallParseLine_SetDefault ==
    /\ pc = "call"
    /\ "\n" \notin {text[k] : k \in 1..Len(text)}
    /\ LET r == parse_line(text, mapping, nextId)
           links == finditer(text, 0)
           unresolved == {k \in 1..Len(links) :
                             SubSeq(links[k].group, 3, Len(links[k].group) - 2)
                                \notin DOMAIN mapping}
       IN  /\ ret' = [elements |-> r.elements, content_type |-> r.content_type]
           /\ nextId' = r.next
           /\ mapping' = IF r.content_type = "list" \/ unresolved = {} THEN mapping
                         ELSE (SubSeq(links[Min(unresolved)].group, 3,
                                      Len(links[Min(unresolved)].group) - 2)
                                  :> nextId) @@ mapping
    /\ pc' = "parse_line"
    /\ UNCHANGED <<files, notes, fi, text>>

CallParseLine ==
    /\ pc = "call"
    /\ "\n" \notin {text[k] : k \in 1..Len(text)}
    /\ LET r == parse_line(text, mapping, nextId)
       IN  /\ ret' = [elements |-> r.elements, content_type |-> r.content_type]
           /\ nextId' = r.next
    /\ pc' = "parse_line"
    /\ UNCHANGED <<files, mapping, notes, fi, text>>

CallConvertToTokens ==
    /\ pc = "call"
    /\ LET r == convert_to_tokens(text, mapping, nextId)
       IN  /\ ret' = r.tokens
           /\ nextId' = r.next
    /\ pc' = "convert_to_tokens"
    /\ UNCHANGED <<files, mapping, notes, fi, text>>

\* one file of the walk of obsidian_to_ideaflow_link_mapping
MapFile ==
    /\ pc = "map"
    /\ fi <= Len(files)
    /\ LET filename == files[fi].name
       IN  IF endswith(filename, MdSuffix)
           THEN /\ mapping' = (Title(filename) :> nextId) @@ mapping
                /\ nextId' = nextId + 1
           ELSE UNCHANGED <<mapping, nextId>>
    /\ fi' = fi + 1
    /\ UNCHANGED <<files, notes, pc, text, ret>>

\* the mapping is returned and the second walk begins
MapDone ==
    /\ pc = "map"
    /\ fi > Len(files)
    /\ pc' = "convert"
    /\ fi' = 1
    /\ UNCHANGED <<files, mapping, notes, nextId, text, ret>>

\* one file of the walk of obsidian_to_ideaflow, had the record been stored
\* under a newly generated identifier
ConvertFile_FreshKey ==
    /\ pc = "convert"
    /\ fi <= Len(files)
    /\ LET filename == files[fi].name
           content == files[fi].content
       IN  IF endswith(filename, MdSuffix)
           THEN LET title == Title(filename)
                    note_id == mapping[title]
                    r == convert_to_tokens(title \o <<"\n">> \o content, mapping, nextId)
                IN  /\ notes' = (r.next :> NoteData(note_id, r.tokens)) @@ notes
                    /\ nextId' = r.next + 1
           ELSE UNCHANGED <<notes, nextId>>
    /\ fi' = fi + 1
    /\ UNCHANGED <<files, mapping, pc, text, ret>>

\* one file of the walk of obsidian_to_ideaflow
ConvertFile ==
    /\ pc = "convert"
    /\ fi <= Len(files)
    /\ LET filename == files[fi].name
           content == files[fi].content
       IN  IF endswith(filename, MdSuffix)
           THEN LET title == Title(filename)
                    note_id == mapping[title]
                    r == convert_to_tokens(title \o <<"\n">> \o content, mapping, nextId)
                IN  /\ notes' = (note_id :> NoteData(note_id, r.tokens)) @@ notes
                    /\ nextId' = r.next
           ELSE UNCHANGED <<notes, nextId>>
    /\ fi' = fi + 1
    /\ UNCHANGED <<files, mapping, pc, text, ret>>

\* the output document is written
WriteOutput ==
    /\ pc = "convert"
    /\ fi > Len(files)
    /\ ret' = [version |-> "08212023", notes |-> notes]
    /\ pc' = "done"
    /\ UNCHANGED <<files, mapping, notes, nextId, fi, text>>

\* ------------------------------------------ Spec: the conversion of a vault

Init ==
    /\ files \in Vaults
    /\ mapping = EmptyMapping
    /\ notes = NoNotes
    /\ nextId = 0
    /\ pc = "map"
    /\ fi = 1
    /\ text = <<>>
    /\ ret = <<>>

Next == MapFile \/ MapDone \/ ConvertFile \/ WriteOutput

Spec == Init /\ [][Next]_vars

\* ----------------------------- SpecLine: lines and notes with their links

InitLine ==
    /\ text \in Strings(LinePieces, MaxPieces)
    /\ \E lm \in LineMappings : mapping = lm.mapping /\ nextId = lm.nextId
    /\ files = NoFiles
    /\ notes = NoNotes
    /\ fi = 0
    /\ pc = "call"
    /\ ret = <<>>

NextLine == CallParseLine \/ CallConvertToTokens

SpecLine == InitLine /\ [][NextLine]_vars

\* ------------------------------------- SpecWords: the word-level parsing

InitWords ==
    /\ text \in Strings(WordPieces, MaxPieces)
    /\ mapping = EmptyMapping
    /\ nextId = 0
    /\ files = NoFiles
    /\ notes = NoNotes
    /\ fi = 0
    /\ pc = "call"
    /\ ret = <<>>

NextWords == CallParseByWord \/ CallParseLine

SpecWords == InitWords /\ [][NextWords]_vars

\* ------------------------------------------------- properties of the words

Chars(s) == {s[k] : k \in 1..Len(s)}

Spaces(k) == [i \in 1..k |-> " "]

\* the content fields of a sequence of inline elements, concatenated in order
RECURSIVE Contents(_)
Contents(elements) ==
    IF elements = <<>> THEN <<>> ELSE Head(elements).content \o Contents(Tail(elements))

\* s without its leading and trailing whitespace
Trim(s) ==
    LET solid == {i \in 1..Len(s) : s[i] \notin Whitespace}
    IN  IF solid = {} THEN <<>>
        ELSE SubSeq(s, Min(solid), CHOOSE i \in solid : \A k \in solid : k <= i)

LeadingWs(s) == SubSeq(s, 1, Len(s) - Len(lstrip(s)))
TrailingWs(s) == SubSeq(s, Len(rstrip(s)) + 1, Len(s))

\* s with every run of whitespace replaced by one space
Squeeze(s) ==
    LET keep == {i \in 1..Len(s) : s[i] \notin Whitespace \/ i = 1 \/ s[i - 1] \notin Whitespace}
        at(r) == CHOOSE i \in keep : Cardinality({j \in keep : j <= i}) = r
    IN  [r \in 1..Cardinality(keep) |->
            IF s[at(r)] \in Whitespace THEN " " ELSE s[at(r)]]

\* a line with no link, no hashtag and no URL
PlainLine(line) ==
    /\ finditer(line, 0) = <<>>
    /\ \A k \in 1..Len(split(line)) :
          ~IsUrl(split(line)[k]) /\ ~startswith(split(line)[k], <<"#">>)

NoTrailingSeparator(elements) ==
    elements # <<>> => elements[Len(elements)] # SpaceElement

\* C3: a bullet line indented by 4*k spaces gives node-kind "list" with a
\* list item of depth k, for every k >= 0.
C3_DepthOfIndentedBullet ==
    pc = "parse_line" =>
        \A k \in 0..MaxPieces :
            startswith(text, Spaces(4 * k) \o Bullet) =>
                /\ ret.content_type = "list"
                /\ ret.elements.content[1].depth = k

\* C4: on "- [ ] X" and "- [x] X" parse_line returns a paragraph whose element 0
\* is the checkbox marker, checked exactly for the x variant, and whose other
\* elements are the inline parse of the text after the first 6 characters.
C4_Checkbox ==
    pc = "parse_line" /\ (startswith(text, Unchecked) \/ startswith(text, Checked)) =>
        /\ ret.content_type = "paragraph"
        /\ ret.elements[1].type = "checkbox"
        /\ ret.elements[1].isChecked = (text[4] = "x")
        /\ Tail(ret.elements) = parse_by_word(SubSeq(text, 7, Len(text)))

C4_Witness ==
    /\ pc = "parse_line"
    /\ startswith(text, Checked)
    /\ ret.elements[1].isChecked
    /\ Len(ret.elements) >= 4

\* C6 as stated: for a plain line the concatenated content fields are the line
\* itself with each internal whitespace run collapsed to one space (the
\* whitespace at the two ends of the line being kept); the empty line gives no
\* element, and no separator follows the last word.
C6_Original ==
    pc = "parse_by_word" /\ PlainLine(text) =>
        /\ Contents(ret) = LeadingWs(text) \o Squeeze(Trim(text)) \o TrailingWs(text)
        /\ (text = <<>> => ret = <<>>)
        /\ NoTrailingSeparator(ret)

\* C6 as amended: for a plain line the concatenated content fields are the line
\* with its leading and trailing whitespace removed and each internal
\* whitespace run collapsed to one space; the empty line gives no element, and
\* no separator follows the last word.
C6_TrimmedAndCollapsed ==
    pc = "parse_by_word" /\ PlainLine(text) =>
        /\ Contents(ret) = Squeeze(Trim(text))
        /\ (text = <<>> => ret = <<>>)
        /\ NoTrailingSeparator(ret)

C6_Witness ==
    /\ pc = "parse_by_word"
    /\ PlainLine(text)
    /\ Len(ret) >= 3
    /\ Len(Contents(ret)) + 2 <= Len(text)
    /\ text[1] \in Whitespace

\* ------------------------------------------------- properties of the links

Range(f) == {f[x] : x \in DOMAIN f}

\* the r-th smallest member of a set of numbers
Nth(S, r) == CHOOSE i \in S : Cardinality({j \in S : j <= i}) = r

\* a line of the default category: neither a bullet nor a checkbox
DefaultCategory(line) ==
    /\ ~startswith(line, Bullet)
    /\ ~startswith(line, Unchecked)
    /\ ~startswith(line, Checked)

\* <<s, e>>: a "[[" at s (1-based) and the first "]]" after it, at e
Pairs(line) ==
    {p \in (1..Len(line)) \X (1..Len(line)) :
        /\ OccursAt(line, OpenBr, p[1])
        /\ OccursAt(line, CloseBr, p[2])
        /\ p[2] >= p[1] + 2
        /\ \A j \in (p[1] + 2)..(p[2] - 1) : ~OccursAt(line, CloseBr, j)}

\* the pairs a left-to-right scan takes: those that do not begin inside a pair
\* taken before them
Taken(line) ==
    CHOOSE M \in SUBSET Pairs(line) :
        \A p \in Pairs(line) :
            p \in M <=> ~\E q \in M : q[1] < p[1] /\ p[1] <= q[2] + 1

\* the titles of the pairs taken, from left to right
TakenTitles(line) ==
    LET M == Taken(line)
        starts == {p[1] : p \in M}
        pair(r) == CHOOSE p \in M : p[1] = Nth(starts, r)
    IN  [r \in 1..Cardinality(M) |-> SubSeq(line, pair(r)[1] + 2, pair(r)[2] - 1)]

\* the cross-note references among the elements, in order
Ships(elements) == SelectSeq(elements, LAMBDA e : e.type = "spaceship")

\* the inline elements of what parse_line returned, the checkbox marker left out
InlineElements(r) ==
    IF r.content_type = "list" THEN r.elements.content[1].content[1].content
    ELSE SelectSeq(r.elements, LAMBDA e : e.type # "checkbox")

\* the part of a line that is parsed into inline elements
Body(line) ==
    IF startswith(line, Bullet) THEN SubSeq(line, 3, Len(line))
    ELSE IF startswith(line, Unchecked) \/ startswith(line, Checked)
         THEN SubSeq(line, 7, Len(line))
         ELSE line

\* the line with every taken pair replaced by a reference mark between spaces
RefMark == "<ref>"

RECURSIVE Marked(_, _, _)
Marked(line, M, i) ==
    IF i > Len(line) THEN <<>>
    ELSE IF \E p \in M : p[1] = i
         THEN LET p == CHOOSE q \in M : q[1] = i
              IN  <<" ", RefMark, " ">> \o Marked(line, M, p[2] + 2)
         ELSE <<line[i]>> \o Marked(line, M, i + 1)

\* the words of a sequence of elements: a reference is the mark, a separator is no word
RECURSIVE ElementWords(_)
ElementWords(elements) ==
    IF elements = <<>> THEN <<>>
    ELSE LET e == Head(elements)
         IN  (IF e.type = "spaceship" THEN <<<<RefMark>>>>
              ELSE IF e = SpaceElement THEN <<>>
              ELSE <<e.content>>) \o ElementWords(Tail(elements))

\* the positions at which [[title]] occurs in the line
Occurrences(line, title) ==
    {i \in 1..Len(line) : OccursAt(line, OpenBr \o title \o CloseBr, i)}

\* C1 as stated: for every line and every occurrence of [[Title]] with Title a
\* key of the mapping, parse_line emits a cross-note reference whose
\* linkedNoteId is mapping[Title], and the elements of the plain text around the
\* references keep the order they have in the line.
C1_Original ==
    pc = "parse_line" =>
        /\ \A title \in DOMAIN mapping :
              Cardinality(Occurrences(text, title))
                 <= Len(SelectSeq(Ships(InlineElements(ret)),
                                  LAMBDA e : e.linkedNoteId = mapping[title]))
        /\ ElementWords(InlineElements(ret))
              = split(Marked(Body(text), Taken(Body(text)), 1))

\* C1 as amended: for every line of the default category (neither a bullet nor
\* a checkbox line) and every [[Title]] that the left-to-right, nearest-closer
\* scan takes with Title a key of the mapping, parse_line emits a cross-note
\* reference whose linkedNoteId is mapping[Title], and the elements of the
\* plain text before, between and after the references keep the order they
\* have in the line.
C1_MappedLinksInOrder ==
    pc = "parse_line" /\ DefaultCategory(text) =>
        LET titles == TakenTitles(text)
            ships == Ships(ret.elements)
        IN  /\ \A j \in 1..Len(titles) :
                  titles[j] \in DOMAIN mapping =>
                      /\ j <= Len(ships)
                      /\ ships[j].linkedNoteId = mapping[titles[j]]
            /\ ElementWords(ret.elements) = split(Marked(text, Taken(text), 1))

C1_Witness ==
    /\ pc = "parse_line"
    /\ DefaultCategory(text)
    /\ Len(ret.elements) >= 3
    /\ ret.elements[1].type = "text"
    /\ ret.elements[2].type = "spaceship"
    /\ ret.elements[2].linkedNoteId \in Range(mapping)
    /\ ret.elements[3].type = "text"

\* C9: a line of the default category with n non-overlapping [[...]] pairs gives
\* exactly n cross-note references, the j-th resolved against the title between
\* the j-th "[[" and the first "]]" after it; no reference spans from one
\* pair's "[[" to a later pair's "]]".
C9_NonGreedy ==
    pc = "parse_line" /\ DefaultCategory(text) =>
        LET titles == TakenTitles(text)
            ships == Ships(ret.elements)
        IN  /\ Len(ships) = Len(titles)
            /\ \A j \in 1..Len(titles) :
                  /\ \A k \in 1..(Len(titles[j]) - 1) : ~OccursAt(titles[j], CloseBr, k)
                  /\ IF titles[j] \in DOMAIN mapping
                     THEN ships[j].linkedNoteId = mapping[titles[j]]
                     ELSE ships[j].linkedNoteId \notin Range(mapping)

C9_Witness ==
    /\ pc = "parse_line"
    /\ DefaultCategory(text)
    /\ Len(Ships(ret.elements)) = 2
    /\ Ships(ret.elements)[1].linkedNoteId \in Range(mapping)
    /\ Ships(ret.elements)[2].linkedNoteId \in Range(mapping)

\* C8: for every [[Title]] of a default-category line with Title no key of the
\* mapping, parse_line emits a cross-note reference of the same shape whose
\* target is an identifier generated during the call and no value of the
\* mapping; parse_line and convert_to_tokens leave the mapping as it was.
C8_Step ==
    pc = "call" /\ pc' \in {"parse_line", "convert_to_tokens"} =>
        /\ mapping' = mapping
        /\ pc' = "parse_line" /\ DefaultCategory(text) =>
              LET titles == TakenTitles(text)
                  ships == Ships(ret'.elements)
              IN  \A j \in 1..Len(titles) :
                      titles[j] \notin DOMAIN mapping =>
                          /\ j <= Len(ships)
                          /\ DOMAIN ships[j] = {"type", "linkedNoteId", "tokenId"}
                          /\ ships[j].linkedNoteId \notin Range(mapping')
                          /\ ships[j].linkedNoteId \in nextId..(nextId' - 1)
                          /\ ships[j].tokenId \in nextId..(nextId' - 1)
                          /\ ships[j].tokenId # ships[j].linkedNoteId

C8_UnresolvedLinks == [][C8_Step]_vars

C8_Witness ==
    /\ pc = "parse_line"
    /\ DefaultCategory(text)
    /\ mapping # EmptyMapping
    /\ Len(ret.elements) = 2
    /\ ret.elements[1].type = "text"
    /\ ret.elements[2].type = "spaceship"
    /\ TakenTitles(text) = <<<<"#">>>>
    /\ ret.elements[2].linkedNoteId \notin Range(mapping)

\* ------------------------------------------------ properties of the tokens

\* a sequence of inline elements with the generated identifiers left out: the
\* target of a reference is kept if it is a note of the mapping
RECURSIVE ElementShapes(_, _)
ElementShapes(elements, m) ==
    IF elements = <<>> THEN <<>>
    ELSE LET e == Head(elements)
         IN  <<IF e.type = "spaceship"
               THEN [type |-> "spaceship",
                     linkedNoteId |-> IF e.linkedNoteId \in Range(m)
                                      THEN e.linkedNoteId ELSE -1]
               ELSE e>> \o ElementShapes(Tail(elements), m)

\* a line-level node with the generated identifiers left out
TokenShape(token, m) ==
    IF token.type = "list"
    THEN [type |-> "list", depth |-> token.content[1].depth,
          content |-> ElementShapes(token.content[1].content[1].content, m)]
    ELSE [type |-> "paragraph", content |-> ElementShapes(token.content, m)]

\* the node that the line alone gives, with the generated identifiers left out
LineShape(line, m, n) ==
    LET r == parse_line(line, m, n)
    IN  IF r.content_type = "list" THEN TokenShape(r.elements, m)
        ELSE [type |-> "paragraph", content |-> ElementShapes(r.elements, m)]

\* the i-th line of a text: what lies between its (i-1)-th and its i-th newline
NthLine(s, i) ==
    LET nl == {k \in 1..Len(s) : s[k] = "\n"}
        from == IF i = 1 THEN 1 ELSE Nth(nl, i - 1) + 1
        to == IF i = Cardinality(nl) + 1 THEN Len(s) ELSE Nth(nl, i) - 1
    IN  SubSeq(s, from, to)

LineCount(s) == Cardinality({k \in 1..Len(s) : s[k] = "\n"}) + 1

Blank(line) == Chars(line) \subseteq Whitespace

\* the tokens are those of the text, line by line
TokensOfText(tokens, s, m, n) ==
    /\ Len(tokens) = LineCount(s)
    /\ \A i \in 1..LineCount(s) :
          IF Blank(NthLine(s, i))
          THEN tokens[i].type = "paragraph" /\ tokens[i].content = <<>>
          ELSE TokenShape(tokens[i], m) = LineShape(NthLine(s, i), m, n)

\* C5: convert_to_tokens gives one line-level node per line of the text split
\* on newlines, in the order of the lines: as many tokens as lines, the i-th
\* token derived from the i-th line, an empty paragraph for every blank line.
C5_OneTokenPerLine ==
    pc = "convert_to_tokens" => TokensOfText(ret, text, mapping, nextId)

C5_Witness ==
    /\ pc = "convert_to_tokens"
    /\ Len(ret) = 3
    /\ ret[1].type = "paragraph" /\ ret[1].content # <<>>
    /\ ret[2].content = <<>>
    /\ ret[3].type = "list"

\* --------------------------------------------------- properties of the vault

IsMd(f) == endswith(f.name, MdSuffix)

\* the title as the specification derives it: the name without its extension
\* suffix, every # removed
SuffixTitle(filename) ==
    remove_all(SubSeq(filename, 1, Len(filename) - Len(MdSuffix)), <<"#">>)

\* the last file of the vault with the title t, as the code derives titles
LastWithTitle(t) ==
    files[CHOOSE i \in 1..Len(files) :
            /\ IsMd(files[i]) /\ Title(files[i].name) = t
            /\ \A k \in (i + 1)..Len(files) :
                  ~(IsMd(files[k]) /\ Title(files[k].name) = t)]

\* C2: Note A.md with the body "Hello [[Note B]] #tag http://x.com" beside an
\* empty Note B.md gives Note A a title paragraph, then a paragraph of exactly
\* text "Hello", text " ", reference to idB, text " ", hashtag "#tag", text " ",
\* link "http://x.com": the separators on both sides of the reference are kept.
C2_EndToEndExample ==
    pc = "done" /\ files = ExampleVault =>
        LET idA == mapping[NoteA]
            idB == mapping[NoteB]
            tokens == notes[idA].tokens
            word(w) == [type |-> "text", marks |-> <<>>, content |-> w]
        IN  /\ Len(tokens) = 2
            /\ tokens[1].type = "paragraph"
            /\ Contents(tokens[1].content) = NoteA
            /\ tokens[2].type = "paragraph"
            /\ ElementShapes(tokens[2].content, mapping) =
                  <<word(<<"H", "e", "l", "l", "o">>), SpaceElement,
                    [type |-> "spaceship", linkedNoteId |-> idB], SpaceElement,
                    [type |-> "hashtag", content |-> <<"#", "t", "a", "g">>], SpaceElement,
                    [type |-> "link", content |-> ExampleUrl, slug |-> ExampleUrl]>>

\* C7: after the mapping-build pass the keys of the mapping are exactly the
\* titles of the Markdown files (the name without its extension suffix, every #
\* removed), each file has one entry, and of the files of one title the last
\* enumerated gave the entry.
C7_MappingKeys ==
    pc \in {"convert", "done"} =>
        LET md == {i \in 1..Len(files) : IsMd(files[i])}
            \* the identifier generated for the i-th file: one per Markdown file
            idOf(i) == Cardinality({k \in md : k < i})
        IN  /\ DOMAIN mapping = {SuffixTitle(files[i].name) : i \in md}
            /\ \A i \in md :
                  /\ SuffixTitle(files[i].name) \in DOMAIN mapping
                  /\ (\A k \in md : k > i =>
                         SuffixTitle(files[k].name) # SuffixTitle(files[i].name))
                     => mapping[SuffixTitle(files[i].name)] = idOf(i)

\* C10: every note record is stored under its own id, which is the mapping's
\* value for the title of its note; there are as many records as distinct
\* titles among the Markdown files, and of the files of one title the record
\* is that of the file read last.
C10_NotesKeyedById ==
    /\ \A k \in DOMAIN notes :
          /\ notes[k].id = k
          /\ \E i \in 1..Len(files) :
                IsMd(files[i]) /\ mapping[Title(files[i].name)] = k
    /\ pc = "done" =>
          LET titles == {Title(files[i].name) : i \in {k \in 1..Len(files) : IsMd(files[k])}}
          IN  /\ Cardinality(DOMAIN notes) = Cardinality(titles)
              /\ \A t \in titles :
                    /\ mapping[t] \in DOMAIN notes
                    /\ TokensOfText(notes[mapping[t]].tokens,
                                    t \o <<"\n">> \o LastWithTitle(t).content,
                                    mapping, nextId)

C10_Witness ==
    /\ pc = "done"
    /\ Len(files) = 2
    /\ IsMd(files[1]) /\ IsMd(files[2])
    /\ files[1].name # files[2].name
    /\ Title(files[1].name) = Title(files[2].name)
    /\ files[1].content # files[2].content
    /\ Cardinality(DOMAIN notes) = 1

====
